---- MODULE Spec2Model ----
(***************************************************************************)
(* Model of the Supabase SSR protocol code of                              *)
(* src/.cursor/rules/supabase_ssr_client_use.mdc:                          *)
(*   - updateSession  (middleware: session refresh + route protection)     *)
(*   - signup         (server action: auth user + profile, with cleanup)   *)
(*   - ClientDataComponent (client view: fetchData + realtime channel)     *)
(* Each of the three is one specification over its own variables:          *)
(* SpecSession, SpecSignup and SpecFeed.                                   *)
(***************************************************************************)
EXTENDS Integers, Sequences, FiniteSets, TLC

VARIABLES
    \* ---- updateSession ----
    mwPc,              \* "start" | "refreshing" | "done": position in updateSession
    pathname,          \* request.nextUrl.pathname, a sequence of characters
    reqCookies,        \* request.cookies: name -> value
    supabaseResponse,  \* the `let supabaseResponse` of updateSession
    returned,          \* what updateSession returned (NoResponse until it returns)
    getUserResult,     \* the {data: {user}, error} that getUser resolved to
    nBatches,          \* number of setAll calls made by the refresh so far
    lastMut,           \* history: name -> last {value, options} passed to setAll
    \* ---- signup ----
    suPc,              \* run -> position in signup
    suEmail,           \* run -> formData email
    suReply,           \* run -> reply of the remote call the run awaits
    suUserId,          \* run -> const userId (0 while unset)
    suOutcome,         \* run -> redirect target the run ended with
    suLogged,          \* run -> sequence of console.error labels
    suCalls,           \* run -> history of remote calls issued / returned
    suCreated,         \* run -> id the provider created for the run's signUp (0: none)
    identities,        \* the identity provider's users: set of [id, email]
    profiles,          \* the "profiles" table: set of [id, email, role]
    nextId,            \* next id the identity provider hands out
    \* ---- ClientDataComponent ----
    mounted,           \* "no" | "yes" | "unmounted"
    subscribed,        \* the channel subscription is active
    rows,              \* "your_table" on the server: id -> version, for present ids
    feed,              \* change events the transport has not delivered yet
    lastEvent,         \* the event delivered last (the transport may redeliver it)
    nWrites,           \* number of table writes so far
    nDups,             \* number of duplicate deliveries so far
    fetches,           \* fetchData calls in flight: set of fetch records
    nFetch,            \* number of fetchData calls so far
    data,              \* useState data: [isNull, rows], null until the first setData
    loading,           \* useState loading
    deliveries,        \* history: events received by the channel, in order
    triggers,          \* history: per fetchData call, the delivery that caused it (0: mount)
    lastTwo,           \* history: the last two fetchData completions
    \* ---- login ----
    liPc,              \* position in login
    liReply,           \* reply of signInWithPassword
    liOutcome,         \* redirect target login ended with
    liLogged,          \* sequence of console.error entries of login
    \* ---- actionWithErrorHandling ----
    awPc,              \* run -> position in actionWithErrorHandling
    awReply,           \* run -> reply of the remote call the run awaits
    awCreatedRecordId, \* run -> let createdRecordId (0 while null)
    awRelatedError,    \* run -> relatedError.message ("" while none)
    awOutcome,         \* run -> redirect target the run ended with
    awCalls,           \* run -> history of remote calls issued / returned
    awCreated,         \* run -> id of the primary record the store created for the run (0: none)
    primaryTable,      \* "primary_table": set of ids
    relatedTable,      \* "related_table": set of primary_id values
    awNextId           \* next id "primary_table" hands out

sessionVars == <<mwPc, pathname, reqCookies, supabaseResponse, returned,
                 getUserResult, nBatches, lastMut>>
signupVars  == <<suPc, suEmail, suReply, suUserId, suOutcome, suLogged, suCalls,
                 suCreated, identities, profiles, nextId>>
feedVars    == <<mounted, subscribed, rows, feed, lastEvent, nWrites, nDups,
                 fetches, nFetch, data, loading, deliveries, triggers, lastTwo>>
loginVars   == <<liPc, liReply, liOutcome, liLogged>>
actionVars  == <<awPc, awReply, awCreatedRecordId, awRelatedError, awOutcome, awCalls,
                 awCreated, primaryTable, relatedTable, awNextId>>
vars == <<sessionVars, signupVars, feedVars, loginVars, actionVars>>

Null == "null"

(***************************************************************************)
(* Bounds of the model.                                                    *)
(***************************************************************************)
MaxBatches  == 2   \* setAll calls per request
MaxBatchLen == 2   \* cookies per setAll call
MaxRuns     == 2   \* signup runs
MaxWrites   == 1   \* writes to the tables behind the change feed
MaxDups     == 1   \* duplicate deliveries by the transport

(***************************************************************************)
(* Strings the code inspects character by character are sequences of       *)
(* one-character strings.                                                  *)
(***************************************************************************)
StartsWith(s, p) ==
    /\ Len(p) <= Len(s)
    /\ SubSeq(s, 1, Len(p)) = p

DashboardPath == <<"/", "d", "a", "s", "h", "b", "o", "a", "r", "d">>
LoginPath     == <<"/", "l", "o", "g", "i", "n">>

\* const protectedRoutes = ["/dashboard"]
protectedRoutes == <<DashboardPath>>

\* Request paths the model draws from.
Paths ==
    { DashboardPath,
      DashboardPath \o <<"/", "x">>,
      DashboardPath \o <<"s">>,
      <<"/", "d", "a", "s", "h">>,
      <<"/", "x">> \o DashboardPath,
      LoginPath,
      <<"/">> }

(***************************************************************************)
(* Cookies.                                                                *)
(***************************************************************************)
CookieNames   == {"sb-access", "sb-refresh"}
CookieValues  == {"", "tok"}            \* "" is a cleared cookie
CookieOptions == {"Max-Age=0", "Max-Age=3600"}
Mutations     == [name : CookieNames, value : CookieValues, options : CookieOptions]
Batches       == UNION { [1..n -> Mutations] : n \in 1..MaxBatchLen }

EmptyJar == [n \in {} |-> Null]

\* cookies.set(name, v) on a cookie jar: last write per name wins.
JarSet(jar, name, v) == [n \in (DOMAIN jar) \cup {name} |-> IF n = name THEN v ELSE jar[n]]

\* cookiesToSet.forEach(({name, value}) => request.cookies.set(name, value))
RECURSIVE SetRequestCookies(_, _)
SetRequestCookies(jar, batch) ==
    IF batch = <<>> THEN jar
    ELSE SetRequestCookies(JarSet(jar, Head(batch).name, Head(batch).value), Tail(batch))

\* cookiesToSet.forEach(({name, value, options}) =>
\*     supabaseResponse.cookies.set(name, value, options))
RECURSIVE SetResponseCookies(_, _)
SetResponseCookies(jar, batch) ==
    IF batch = <<>> THEN jar
    ELSE SetResponseCookies(
             JarSet(jar, Head(batch).name,
                    [value |-> Head(batch).value, options |-> Head(batch).options]),
             Tail(batch))

NoResponse == [kind |-> "none", location |-> <<>>, cookies |-> EmptyJar, forwarded |-> EmptyJar]

\* NextResponse.next({ request }): continue, forwarding the request's cookies;
\* it carries no Set-Cookie of its own.
NextResponseNext(request) ==
    [kind |-> "next", location |-> <<>>, cookies |-> EmptyJar, forwarded |-> request]

\* NextResponse.redirect(url): a fresh response.
NextResponseRedirect(url) ==
    [kind |-> "redirect", location |-> url, cookies |-> EmptyJar, forwarded |-> EmptyJar]

\* Incoming cookie jars of a request: none, an access token alone, a full session.
IncomingJars ==
    { EmptyJar,
      [n \in {"sb-access"} |-> "tok"],
      [n \in CookieNames |-> "tok"] }

NoUser == "nouser"
\* What `await supabase.auth.getUser()` resolves to: {data: {user}, error}.
\* A rejected token and an unreachable provider are reported in `error`, with
\* data.user null.
GetUserResults ==
    {[user |-> NoUser, error |-> e] : e \in {"session_missing", "rejected", "unreachable"}}
    \cup {[user |-> "u1", error |-> "none"]}

NoResult == [user |-> NoUser, error |-> "pending"]
(***************************************************************************)
(* updateSession (middleware).                                             *)
(***************************************************************************)
InitSession ==
    /\ mwPc = "start"
    /\ pathname \in Paths
    /\ reqCookies \in IncomingJars
    /\ supabaseResponse = NoResponse
    /\ returned = NoResponse
    /\ getUserResult = NoResult
    /\ nBatches = 0
    /\ lastMut = EmptyJar

\* Mutant of updateSessionStart: the route protection logic runs before
\* getUser is awaited, on a user that is still undefined.
updateSessionStartDecidesEarly ==
    /\ mwPc = "start"
    /\ supabaseResponse' = NextResponseNext(reqCookies)
    /\ returned' = IF \E i \in 1..Len(protectedRoutes) : StartsWith(pathname, protectedRoutes[i])
                   THEN NextResponseRedirect(LoginPath)
                   ELSE supabaseResponse'
    /\ mwPc' = "refreshing"
    /\ UNCHANGED <<pathname, reqCookies, getUserResult, nBatches, lastMut>>
    /\ UNCHANGED <<signupVars, feedVars, loginVars, actionVars>>

\* let supabaseResponse = NextResponse.next({ request }); createServerClient(...);
\* supabase.auth.getUser() is called and awaited.
updateSessionStart ==
    /\ mwPc = "start"
    /\ supabaseResponse' = NextResponseNext(reqCookies)
    /\ mwPc' = "refreshing"
    /\ UNCHANGED <<pathname, reqCookies, returned, getUserResult, nBatches, lastMut>>
    /\ UNCHANGED <<signupVars, feedVars, loginVars, actionVars>>

\* cookies.setAll(cookiesToSet), called by the client while getUser is awaited.
setAll(cookiesToSet) ==
    /\ mwPc = "refreshing"
    /\ nBatches < MaxBatches
    /\ reqCookies' = SetRequestCookies(reqCookies, cookiesToSet)
    /\ supabaseResponse' =
           [NextResponseNext(reqCookies') EXCEPT
                !.cookies = SetResponseCookies(EmptyJar, cookiesToSet)]
    /\ nBatches' = nBatches + 1
    /\ lastMut' = SetResponseCookies(lastMut, cookiesToSet)
    /\ UNCHANGED <<mwPc, pathname, returned, getUserResult>>
    /\ UNCHANGED <<signupVars, feedVars, loginVars, actionVars>>

\* Mutant of IsProtected: the path is compared for equality instead of by prefix.
IsProtectedExact(path) ==
    \E i \in 1..Len(protectedRoutes) : path = protectedRoutes[i]

\* protectedRoutes.some(p => pathname.startsWith(p))
IsProtected(path) ==
    \E i \in 1..Len(protectedRoutes) : StartsWith(path, protectedRoutes[i])

\* Route protection logic: the response updateSession returns.
RouteResponse(user, path, response) ==
    IF user = NoUser /\ IsProtected(path)
    THEN NextResponseRedirect(LoginPath)
    ELSE response

\* Mutant of updateSessionReturn: the error of getUser is rethrown
\* (if (error) throw error), so the request ends in an error.
updateSessionReturnThrowing(result) ==
    /\ mwPc = "refreshing"
    /\ getUserResult' = result
    /\ returned' = IF result.error \in {"none", "session_missing"}
                   THEN RouteResponse(result.user, pathname, supabaseResponse)
                   ELSE [NoResponse EXCEPT !.kind = "error"]
    /\ mwPc' = "done"
    /\ UNCHANGED <<pathname, reqCookies, supabaseResponse, nBatches, lastMut>>
    /\ UNCHANGED <<signupVars, feedVars, loginVars, actionVars>>

\* const { data: { user } } = await supabase.auth.getUser(); ...; return
updateSessionReturn(result) ==
    /\ mwPc = "refreshing"
    /\ getUserResult' = result
    /\ returned' = RouteResponse(result.user, pathname, supabaseResponse)
    /\ mwPc' = "done"
    /\ UNCHANGED <<pathname, reqCookies, supabaseResponse, nBatches, lastMut>>
    /\ UNCHANGED <<signupVars, feedVars, loginVars, actionVars>>

NextSession ==
    \/ updateSessionStart
    \/ \E b \in Batches : setAll(b)
    \/ \E res \in GetUserResults : updateSessionReturn(res)

(***************************************************************************)
(* signup (server action), run by MaxRuns callers, and the two remote      *)
(* services it calls.  Every `await` is a suspension point: the call is    *)
(* issued, the service acts, the run resumes with the reply.               *)
(***************************************************************************)
Runs   == 1..MaxRuns
Emails == {"a@x.com", "b@x.com"}

NoReply    == [error |-> "pending", id |-> 0]
NoOutcome  == [path |-> "", message |-> ""]
\* redirect("/login?message=...") / redirect("/dashboard")
Redirect(path, message) == [path |-> path, message |-> message]

InitSignup ==
    /\ suPc = [r \in Runs |-> "start"]
    /\ suEmail \in [Runs -> Emails]
    /\ suReply = [r \in Runs |-> NoReply]
    /\ suUserId = [r \in Runs |-> 0]
    /\ suOutcome = [r \in Runs |-> NoOutcome]
    /\ suLogged = [r \in Runs |-> <<>>]
    /\ suCalls = [r \in Runs |-> <<>>]
    /\ suCreated = [r \in Runs |-> 0]
    /\ identities = {}
    /\ profiles = {}
    /\ nextId = 1

\* Step 1: supabase.auth.signUp({email, password, ...}) is issued.
signupStart(r) ==
    /\ suPc[r] = "start"
    /\ suPc' = [suPc EXCEPT ![r] = "awaitSignUp"]
    /\ suCalls' = [suCalls EXCEPT ![r] = Append(@, "signUp")]
    /\ UNCHANGED <<suEmail, suReply, suUserId, suOutcome, suLogged, suCreated,
                   identities, profiles, nextId>>
    /\ UNCHANGED <<sessionVars, feedVars, loginVars, actionVars>>

\* The identity provider serves signUp: it creates the user and returns it, or
\* returns an error, or returns neither an error nor a user.
authSignUp(r, result) ==
    /\ suPc[r] = "awaitSignUp"
    /\ suPc' = [suPc EXCEPT ![r] = "signUpReplied"]
    /\ IF result = "user"
       THEN /\ identities' = identities \cup {[id |-> nextId, email |-> suEmail[r]]}
            /\ nextId' = nextId + 1
            /\ suCreated' = [suCreated EXCEPT ![r] = nextId]
            /\ suReply' = [suReply EXCEPT ![r] = [error |-> "none", id |-> nextId]]
       ELSE /\ UNCHANGED <<identities, nextId, suCreated>>
            /\ suReply' = [suReply EXCEPT ![r] =
                   [error |-> IF result = "error" THEN "auth_error" ELSE "none", id |-> 0]]
    /\ UNCHANGED <<suEmail, suUserId, suOutcome, suLogged, suCalls, profiles>>
    /\ UNCHANGED <<sessionVars, feedVars, loginVars, actionVars>>

\* Mutant of signupAfterSignUp: the `if (!userId)` block is missing, so the
\* insert is issued with an undefined id when signUp returned no user.
signupAfterSignUpNoUserIdCheck(r) ==
    /\ suPc[r] = "signUpReplied"
    /\ IF suReply[r].error # "none"
       THEN /\ suLogged' = [suLogged EXCEPT ![r] =
                   Append(@, [label |-> "Signup Error:", detail |-> suReply[r].error])]
            /\ suOutcome' = [suOutcome EXCEPT ![r] =
                   Redirect("/login", "Could not create account.")]
            /\ suCalls' = [suCalls EXCEPT ![r] = Append(@, "signUp:error")]
            /\ suPc' = [suPc EXCEPT ![r] = "done"]
            /\ UNCHANGED suUserId
       ELSE /\ suUserId' = [suUserId EXCEPT ![r] = suReply[r].id]
            /\ suCalls' = [suCalls EXCEPT ![r] =
                   @ \o <<IF suReply[r].id = 0 THEN "signUp:nouser" ELSE "signUp:ok", "insert">>]
            /\ suPc' = [suPc EXCEPT ![r] = "awaitInsert"]
            /\ UNCHANGED <<suOutcome, suLogged>>
    /\ UNCHANGED <<suEmail, suReply, suCreated, identities, profiles, nextId>>
    /\ UNCHANGED <<sessionVars, feedVars, loginVars, actionVars>>

\* Mutant of signupAfterSignUp: the `if (authError)` block is missing, so a
\* failed signUp falls through to the check of userId.
signupAfterSignUpNoErrorCheck(r) ==
    /\ suPc[r] = "signUpReplied"
    /\ IF suReply[r].id = 0
       THEN /\ suOutcome' = [suOutcome EXCEPT ![r] =
                   Redirect("/login", "Account creation failed.")]
            /\ suCalls' = [suCalls EXCEPT ![r] =
                   Append(@, IF suReply[r].error # "none" THEN "signUp:error"
                                                          ELSE "signUp:nouser")]
            /\ suPc' = [suPc EXCEPT ![r] = "done"]
            /\ UNCHANGED <<suUserId, suLogged>>
       ELSE /\ suUserId' = [suUserId EXCEPT ![r] = suReply[r].id]
            /\ suCalls' = [suCalls EXCEPT ![r] = @ \o <<"signUp:ok", "insert">>]
            /\ suPc' = [suPc EXCEPT ![r] = "awaitInsert"]
            /\ UNCHANGED <<suOutcome, suLogged>>
    /\ UNCHANGED <<suEmail, suReply, suCreated, identities, profiles, nextId>>
    /\ UNCHANGED <<sessionVars, feedVars, loginVars, actionVars>>

\* if (authError) ...; const userId = authData.user?.id; if (!userId) ...;
\* Step 2: supabase.from("profiles").insert({id: userId, email, role}) is issued.
signupAfterSignUp(r) ==
    /\ suPc[r] = "signUpReplied"
    /\ IF suReply[r].error # "none"
       THEN /\ suLogged' = [suLogged EXCEPT ![r] =
                   Append(@, [label |-> "Signup Error:", detail |-> suReply[r].error])]
            /\ suOutcome' = [suOutcome EXCEPT ![r] =
                   Redirect("/login", "Could not create account.")]
            /\ suCalls' = [suCalls EXCEPT ![r] = Append(@, "signUp:error")]
            /\ suPc' = [suPc EXCEPT ![r] = "done"]
            /\ UNCHANGED suUserId
       ELSE IF suReply[r].id = 0
       THEN /\ suOutcome' = [suOutcome EXCEPT ![r] =
                   Redirect("/login", "Account creation failed.")]
            /\ suCalls' = [suCalls EXCEPT ![r] = Append(@, "signUp:nouser")]
            /\ suPc' = [suPc EXCEPT ![r] = "done"]
            /\ UNCHANGED <<suUserId, suLogged>>
       ELSE /\ suUserId' = [suUserId EXCEPT ![r] = suReply[r].id]
            /\ suCalls' = [suCalls EXCEPT ![r] = @ \o <<"signUp:ok", "insert">>]
            /\ suPc' = [suPc EXCEPT ![r] = "awaitInsert"]
            /\ UNCHANGED <<suOutcome, suLogged>>
    /\ UNCHANGED <<suEmail, suReply, suCreated, identities, profiles, nextId>>
    /\ UNCHANGED <<sessionVars, feedVars, loginVars, actionVars>>

\* The profile store serves the insert: the row is written, or an error is
\* returned and nothing is written.
profilesInsert(r, ok) ==
    /\ suPc[r] = "awaitInsert"
    /\ suPc' = [suPc EXCEPT ![r] = "insertReplied"]
    /\ IF ok
       THEN /\ profiles' = profiles \cup
                   {[id |-> suUserId[r], email |-> suEmail[r], role |-> "coach"]}
            /\ suReply' = [suReply EXCEPT ![r] = [error |-> "none", id |-> 0]]
       ELSE /\ UNCHANGED profiles
            /\ suReply' = [suReply EXCEPT ![r] = [error |-> "db_error", id |-> 0]]
    /\ UNCHANGED <<suEmail, suUserId, suOutcome, suLogged, suCalls, suCreated,
                   identities, nextId>>
    /\ UNCHANGED <<sessionVars, feedVars, loginVars, actionVars>>

\* Mutant of signupAfterInsert: profileError is not checked, so signup goes on
\* to redirect("/dashboard") whatever the insert returned.
signupAfterInsertIgnoreError(r) ==
    /\ suPc[r] = "insertReplied"
    /\ suOutcome' = [suOutcome EXCEPT ![r] = Redirect("/dashboard", "")]
    /\ suCalls' = [suCalls EXCEPT ![r] =
           Append(@, IF suReply[r].error # "none" THEN "insert:error" ELSE "insert:ok")]
    /\ suPc' = [suPc EXCEPT ![r] = "done"]
    /\ UNCHANGED <<suLogged, suEmail, suReply, suUserId, suCreated, identities, profiles, nextId>>
    /\ UNCHANGED <<sessionVars, feedVars, loginVars, actionVars>>

\* Mutant of signupAfterInsert: the cleanup call is missing from the
\* profileError branch.
signupAfterInsertNoCleanup(r) ==
    /\ suPc[r] = "insertReplied"
    /\ IF suReply[r].error # "none"
       THEN /\ suLogged' = [suLogged EXCEPT ![r] =
                   Append(@, [label |-> "Profile creation error:", detail |-> suReply[r].error])]
            /\ suOutcome' = [suOutcome EXCEPT ![r] =
                   Redirect("/login", "Account setup failed.")]
            /\ suCalls' = [suCalls EXCEPT ![r] = Append(@, "insert:error")]
       ELSE /\ suOutcome' = [suOutcome EXCEPT ![r] = Redirect("/dashboard", "")]
            /\ suCalls' = [suCalls EXCEPT ![r] = Append(@, "insert:ok")]
            /\ UNCHANGED suLogged
    /\ suPc' = [suPc EXCEPT ![r] = "done"]
    /\ UNCHANGED <<suEmail, suReply, suUserId, suCreated, identities, profiles, nextId>>
    /\ UNCHANGED <<sessionVars, feedVars, loginVars, actionVars>>

\* Mutant of signupAfterInsert: the cleanup call is issued whether or not the
\* insert failed (the `if (profileError)` guards only the log line).
signupAfterInsertAlwaysCleanup(r) ==
    /\ suPc[r] = "insertReplied"
    /\ IF suReply[r].error # "none"
       THEN /\ suLogged' = [suLogged EXCEPT ![r] =
                   Append(@, [label |-> "Profile creation error:", detail |-> suReply[r].error])]
            /\ suCalls' = [suCalls EXCEPT ![r] = @ \o <<"insert:error", "deleteUser">>]
       ELSE /\ suCalls' = [suCalls EXCEPT ![r] = @ \o <<"insert:ok", "deleteUser">>]
            /\ UNCHANGED suLogged
    /\ suPc' = [suPc EXCEPT ![r] = "awaitDelete"]
    /\ UNCHANGED <<suOutcome, suEmail, suReply, suUserId, suCreated, identities, profiles, nextId>>
    /\ UNCHANGED <<sessionVars, feedVars, loginVars, actionVars>>

\* if (profileError) { console.error(...); await supabase.auth.admin.deleteUser(userId)
\* is issued } else { revalidatePath("/", "layout"); redirect("/dashboard") }
signupAfterInsert(r) ==
    /\ suPc[r] = "insertReplied"
    /\ IF suReply[r].error # "none"
       THEN /\ suLogged' = [suLogged EXCEPT ![r] =
                   Append(@, [label |-> "Profile creation error:", detail |-> suReply[r].error])]
            /\ suCalls' = [suCalls EXCEPT ![r] = @ \o <<"insert:error", "deleteUser">>]
            /\ suPc' = [suPc EXCEPT ![r] = "awaitDelete"]
            /\ UNCHANGED suOutcome
       ELSE /\ suOutcome' = [suOutcome EXCEPT ![r] = Redirect("/dashboard", "")]
            /\ suCalls' = [suCalls EXCEPT ![r] = Append(@, "insert:ok")]
            /\ suPc' = [suPc EXCEPT ![r] = "done"]
            /\ UNCHANGED suLogged
    /\ UNCHANGED <<suEmail, suReply, suUserId, suCreated, identities, profiles, nextId>>
    /\ UNCHANGED <<sessionVars, feedVars, loginVars, actionVars>>

\* Mutant of adminDeleteUser: the cleanup removes the users with the run's
\* email instead of the user with the run's userId.
adminDeleteUserByEmail(r, ok) ==
    /\ suPc[r] = "awaitDelete"
    /\ suPc' = [suPc EXCEPT ![r] = "deleteReplied"]
    /\ IF ok
       THEN /\ identities' = {i \in identities : i.email # suEmail[r]}
            /\ suReply' = [suReply EXCEPT ![r] = [error |-> "none", id |-> 0]]
       ELSE /\ UNCHANGED identities
            /\ suReply' = [suReply EXCEPT ![r] = [error |-> "delete_error", id |-> 0]]
    /\ UNCHANGED <<suEmail, suUserId, suOutcome, suLogged, suCalls, suCreated,
                   profiles, nextId>>
    /\ UNCHANGED <<sessionVars, feedVars, loginVars, actionVars>>

\* The identity provider serves admin.deleteUser(userId): the user is removed,
\* or an error is returned and the user stays.
adminDeleteUser(r, ok) ==
    /\ suPc[r] = "awaitDelete"
    /\ suPc' = [suPc EXCEPT ![r] = "deleteReplied"]
    /\ IF ok
       THEN /\ identities' = {i \in identities : i.id # suUserId[r]}
            /\ suReply' = [suReply EXCEPT ![r] = [error |-> "none", id |-> 0]]
       ELSE /\ UNCHANGED identities
            /\ suReply' = [suReply EXCEPT ![r] = [error |-> "delete_error", id |-> 0]]
    /\ UNCHANGED <<suEmail, suUserId, suOutcome, suLogged, suCalls, suCreated,
                   profiles, nextId>>
    /\ UNCHANGED <<sessionVars, feedVars, loginVars, actionVars>>

\* Mutant of signupAfterDelete: the cleanup is retried for as long as it fails.
signupAfterDeleteRetrying(r) ==
    /\ suPc[r] = "deleteReplied"
    /\ IF suReply[r].error = "none"
       THEN /\ suOutcome' = [suOutcome EXCEPT ![r] =
                   Redirect("/login", "Account setup failed.")]
            /\ suCalls' = [suCalls EXCEPT ![r] = Append(@, "deleteUser:ok")]
            /\ suPc' = [suPc EXCEPT ![r] = "done"]
       ELSE /\ suPc' = [suPc EXCEPT ![r] = "awaitDelete"]
            /\ UNCHANGED <<suOutcome, suCalls>>
    /\ UNCHANGED <<suEmail, suReply, suUserId, suLogged, suCreated,
                   identities, profiles, nextId>>
    /\ UNCHANGED <<sessionVars, feedVars, loginVars, actionVars>>

\* The awaited deleteUser resolves (its result is not read);
\* return redirect("/login?message=Account setup failed.")
signupAfterDelete(r) ==
    /\ suPc[r] = "deleteReplied"
    /\ suOutcome' = [suOutcome EXCEPT ![r] = Redirect("/login", "Account setup failed.")]
    /\ suCalls' = [suCalls EXCEPT ![r] =
           Append(@, IF suReply[r].error = "none" THEN "deleteUser:ok" ELSE "deleteUser:error")]
    /\ suPc' = [suPc EXCEPT ![r] = "done"]
    /\ UNCHANGED <<suEmail, suReply, suUserId, suLogged, suCreated,
                   identities, profiles, nextId>>
    /\ UNCHANGED <<sessionVars, feedVars, loginVars, actionVars>>

NextSignup ==
    \E r \in Runs :
        \/ signupStart(r)
        \/ \E result \in {"user", "error", "nouser"} : authSignUp(r, result)
        \/ signupAfterSignUp(r)
        \/ \E ok \in BOOLEAN : profilesInsert(r, ok)
        \/ signupAfterInsert(r)
        \/ \E ok \in BOOLEAN : adminDeleteUser(r, ok)
        \/ signupAfterDelete(r)

(***************************************************************************)
(* login: one remote call, then a redirect.                                *)
(***************************************************************************)
\* error.message values signInWithPassword can answer with
SignInErrors == {"invalid_credentials", "rate_limited"}

InitLogin ==
    /\ liPc = "start"
    /\ liReply = NoReply
    /\ liOutcome = NoOutcome
    /\ liLogged = <<>>

\* login up to `await supabase.auth.signInWithPassword({email, password})`
loginStart ==
    /\ liPc = "start"
    /\ liPc' = "awaitSignIn"
    /\ UNCHANGED <<liReply, liOutcome, liLogged>>
    /\ UNCHANGED <<sessionVars, signupVars, feedVars, actionVars>>

\* The identity provider answers signInWithPassword: a session, or an error.
authSignInWithPassword(error) ==
    /\ liPc = "awaitSignIn"
    /\ liPc' = "signInReplied"
    /\ liReply' = [error |-> error, id |-> 0]
    /\ UNCHANGED <<liOutcome, liLogged>>
    /\ UNCHANGED <<sessionVars, signupVars, feedVars, actionVars>>

\* Mutant of loginAfterSignIn: the redirect carries error.message.
loginAfterSignInLeakingDetail ==
    /\ liPc = "signInReplied"
    /\ liPc' = "done"
    /\ liOutcome' = IF liReply.error # "none"
                    THEN Redirect("/login", liReply.error)
                    ELSE Redirect("/dashboard", "")
    /\ UNCHANGED <<liReply, liLogged>>
    /\ UNCHANGED <<sessionVars, signupVars, feedVars, actionVars>>

\* login after the await: `if (error) return redirect("/login?message=...")`,
\* else revalidatePath and redirect("/dashboard"). Nothing is logged.
loginAfterSignIn ==
    /\ liPc = "signInReplied"
    /\ liPc' = "done"
    /\ liOutcome' = IF liReply.error # "none"
                    THEN Redirect("/login", "Could not authenticate user")
                    ELSE Redirect("/dashboard", "")
    /\ UNCHANGED <<liReply, liLogged>>
    /\ UNCHANGED <<sessionVars, signupVars, feedVars, actionVars>>

NextLogin ==
    \/ loginStart
    \/ \E error \in SignInErrors \cup {"none"} : authSignInWithPassword(error)
    \/ loginAfterSignIn

(***************************************************************************)
(* actionWithErrorHandling: primary insert, related insert, cleanup.       *)
(* The whole body is inside try; every throw, the one redirect() makes     *)
(* included, lands in the catch block, which redirects to /error.          *)
(***************************************************************************)
InitAction ==
    /\ awPc = [r \in Runs |-> "start"]
    /\ awReply = [r \in Runs |-> NoReply]
    /\ awCreatedRecordId = [r \in Runs |-> 0]
    /\ awRelatedError = [r \in Runs |-> ""]
    /\ awOutcome = [r \in Runs |-> NoOutcome]
    /\ awCalls = [r \in Runs |-> <<>>]
    /\ awCreated = [r \in Runs |-> 0]
    /\ primaryTable = {}
    /\ relatedTable = {}
    /\ awNextId = 1

\* catch (error) { console.error(...); redirect("/error?message=" + message) }
Catch(message) == Redirect("/error", message)

\* Run r up to the await of the insert into "primary_table".
actionStart(r) ==
    /\ awPc[r] = "start"
    /\ awPc' = [awPc EXCEPT ![r] = "awaitPrimary"]
    /\ awCalls' = [awCalls EXCEPT ![r] = Append(@, "insertPrimary")]
    /\ UNCHANGED <<awReply, awCreatedRecordId, awRelatedError, awOutcome, awCreated,
                   primaryTable, relatedTable, awNextId>>
    /\ UNCHANGED <<sessionVars, signupVars, feedVars, loginVars>>

\* The store serves .from("primary_table").insert(...).select().single():
\* the row is created and returned, or an error is returned.
primaryInsert(r, ok) ==
    /\ awPc[r] = "awaitPrimary"
    /\ awPc' = [awPc EXCEPT ![r] = "primaryReplied"]
    /\ IF ok
       THEN /\ primaryTable' = primaryTable \cup {awNextId}
            /\ awCreated' = [awCreated EXCEPT ![r] = awNextId]
            /\ awReply' = [awReply EXCEPT ![r] = [error |-> "none", id |-> awNextId]]
            /\ awNextId' = awNextId + 1
       ELSE /\ awReply' = [awReply EXCEPT ![r] = [error |-> "primary_error", id |-> 0]]
            /\ UNCHANGED <<primaryTable, awCreated, awNextId>>
    /\ UNCHANGED <<awCreatedRecordId, awRelatedError, awOutcome, awCalls, relatedTable>>
    /\ UNCHANGED <<sessionVars, signupVars, feedVars, loginVars>>

\* `if (primaryError) throw new Error(primaryError.message)`, else
\* createdRecordId = primaryData.id and the related insert is issued.
actionAfterPrimary(r) ==
    /\ awPc[r] = "primaryReplied"
    /\ IF awReply[r].error # "none"
       THEN /\ awOutcome' = [awOutcome EXCEPT ![r] = Catch(awReply[r].error)]
            /\ awCalls' = [awCalls EXCEPT ![r] = Append(@, "insertPrimary:error")]
            /\ awPc' = [awPc EXCEPT ![r] = "done"]
            /\ UNCHANGED awCreatedRecordId
       ELSE /\ awCreatedRecordId' = [awCreatedRecordId EXCEPT ![r] = awReply[r].id]
            /\ awCalls' = [awCalls EXCEPT ![r] = @ \o <<"insertPrimary:ok", "insertRelated">>]
            /\ awPc' = [awPc EXCEPT ![r] = "awaitRelated"]
            /\ UNCHANGED awOutcome
    /\ UNCHANGED <<awReply, awRelatedError, awCreated, primaryTable, relatedTable, awNextId>>
    /\ UNCHANGED <<sessionVars, signupVars, feedVars, loginVars>>

\* The store serves .from("related_table").insert({primary_id: createdRecordId}).
relatedInsert(r, ok) ==
    /\ awPc[r] = "awaitRelated"
    /\ awPc' = [awPc EXCEPT ![r] = "relatedReplied"]
    /\ IF ok
       THEN /\ relatedTable' = relatedTable \cup {awCreatedRecordId[r]}
            /\ awReply' = [awReply EXCEPT ![r] = [error |-> "none", id |-> 0]]
       ELSE /\ awReply' = [awReply EXCEPT ![r] = [error |-> "related_error", id |-> 0]]
            /\ UNCHANGED relatedTable
    /\ UNCHANGED <<awCreatedRecordId, awRelatedError, awOutcome, awCalls, awCreated,
                   primaryTable, awNextId>>
    /\ UNCHANGED <<sessionVars, signupVars, feedVars, loginVars>>

\* Mutant of actionAfterRelated: the cleanup delete is missing, relatedError
\* is thrown at once.
actionAfterRelatedNoCleanup(r) ==
    /\ awPc[r] = "relatedReplied"
    /\ awPc' = [awPc EXCEPT ![r] = "done"]
    /\ IF awReply[r].error # "none"
       THEN /\ awRelatedError' = [awRelatedError EXCEPT ![r] = awReply[r].error]
            /\ awCalls' = [awCalls EXCEPT ![r] = Append(@, "insertRelated:error")]
            /\ awOutcome' = [awOutcome EXCEPT ![r] = Catch(awReply[r].error)]
       ELSE /\ awCalls' = [awCalls EXCEPT ![r] = Append(@, "insertRelated:ok")]
            /\ awOutcome' = [awOutcome EXCEPT ![r] = Catch("NEXT_REDIRECT")]
            /\ UNCHANGED awRelatedError
    /\ UNCHANGED <<awReply, awCreatedRecordId, awCreated, primaryTable, relatedTable, awNextId>>
    /\ UNCHANGED <<sessionVars, signupVars, feedVars, loginVars>>

\* `if (relatedError) { await ...delete().eq("id", createdRecordId); throw }`,
\* else revalidatePath and redirect("/dashboard"), whose NEXT_REDIRECT throw is
\* caught by the catch block like any other.
actionAfterRelated(r) ==
    /\ awPc[r] = "relatedReplied"
    /\ IF awReply[r].error # "none"
       THEN /\ awRelatedError' = [awRelatedError EXCEPT ![r] = awReply[r].error]
            /\ awCalls' = [awCalls EXCEPT ![r] = @ \o <<"insertRelated:error", "deletePrimary">>]
            /\ awPc' = [awPc EXCEPT ![r] = "awaitCleanup"]
            /\ UNCHANGED awOutcome
       ELSE /\ awCalls' = [awCalls EXCEPT ![r] = Append(@, "insertRelated:ok")]
            /\ awOutcome' = [awOutcome EXCEPT ![r] = Catch("NEXT_REDIRECT")]
            /\ awPc' = [awPc EXCEPT ![r] = "done"]
            /\ UNCHANGED awRelatedError
    /\ UNCHANGED <<awReply, awCreatedRecordId, awCreated, primaryTable, relatedTable, awNextId>>
    /\ UNCHANGED <<sessionVars, signupVars, feedVars, loginVars>>

\* The store serves .from("primary_table").delete().eq("id", createdRecordId):
\* the row is removed, or an error is returned and the row stays.
primaryDelete(r, ok) ==
    /\ awPc[r] = "awaitCleanup"
    /\ awPc' = [awPc EXCEPT ![r] = "cleanupReplied"]
    /\ IF ok
       THEN /\ primaryTable' = primaryTable \ {awCreatedRecordId[r]}
            /\ awReply' = [awReply EXCEPT ![r] = [error |-> "none", id |-> 0]]
            /\ awCalls' = [awCalls EXCEPT ![r] = Append(@, "deletePrimary:ok")]
       ELSE /\ awReply' = [awReply EXCEPT ![r] = [error |-> "delete_error", id |-> 0]]
            /\ awCalls' = [awCalls EXCEPT ![r] = Append(@, "deletePrimary:error")]
            /\ UNCHANGED primaryTable
    /\ UNCHANGED <<awCreatedRecordId, awRelatedError, awOutcome, awCreated,
                   relatedTable, awNextId>>
    /\ UNCHANGED <<sessionVars, signupVars, feedVars, loginVars>>

\* After the cleanup await, whose result is not read:
\* `throw new Error(relatedError.message)`, caught by the catch block.
actionAfterCleanup(r) ==
    /\ awPc[r] = "cleanupReplied"
    /\ awPc' = [awPc EXCEPT ![r] = "done"]
    /\ awOutcome' = [awOutcome EXCEPT ![r] = Catch(awRelatedError[r])]
    /\ UNCHANGED <<awReply, awCreatedRecordId, awRelatedError, awCalls, awCreated,
                   primaryTable, relatedTable, awNextId>>
    /\ UNCHANGED <<sessionVars, signupVars, feedVars, loginVars>>

NextAction ==
    \E r \in Runs :
        \/ actionStart(r)
        \/ \E ok \in BOOLEAN : primaryInsert(r, ok)
        \/ actionAfterPrimary(r)
        \/ \E ok \in BOOLEAN : relatedInsert(r, ok)
        \/ actionAfterRelated(r)
        \/ \E ok \in BOOLEAN : primaryDelete(r, ok)
        \/ actionAfterCleanup(r)

(***************************************************************************)
(* ClientDataComponent: fetchData and the realtime channel.                *)
(* rows is "your_table" on the server: rows[i] is the version of the row   *)
(* with id i (created i-th), or Deleted.                                   *)
(***************************************************************************)
Deleted == -1

\* .select("*").order("created_at", { ascending: false })
RECURSIVE SelectFrom(_, _)
SelectFrom(t, i) ==
    IF i = 0 THEN <<>>
    ELSE (IF t[i] # Deleted THEN <<[id |-> i, v |-> t[i]]>> ELSE <<>>) \o SelectFrom(t, i - 1)

SelectAll(t) == SelectFrom(t, Len(t))

NullData == [isNull |-> TRUE, rows |-> <<>>]

\* Mutant of setData: the fetched rows are appended to the rows already held
\* (setData(prev => [...prev, ...fetchedData])).
setDataAppend(prev, fetchedData) == [isNull |-> FALSE, rows |-> prev.rows \o fetchedData]

\* setData(fetchedData): the state after the call, given the state before it.
setData(prev, fetchedData) == [isNull |-> FALSE, rows |-> fetchedData]

NoEvent == [seq |-> 0, op |-> "none", schema |-> "", table |-> ""]

\* Mutant of ChannelFilter: the channel listens to inserts only.
ChannelFilterInsertOnly == [event |-> "INSERT", schema |-> "public", table |-> "your_table"]

\* { event: "*", schema: "public", table: "your_table" }
ChannelFilter == [event |-> "*", schema |-> "public", table |-> "your_table"]

\* Whether a postgres_changes filter selects a change event.
Matches(filter, e) ==
    /\ filter.event = "*" \/ filter.event = e.op
    /\ filter.schema = e.schema
    /\ filter.table = e.table

InitFeed ==
    /\ mounted = "no"
    /\ subscribed = FALSE
    /\ rows \in {<<>>, <<0>>}
    /\ feed = <<>>
    /\ lastEvent = NoEvent
    /\ nWrites = 0
    /\ nDups = 0
    /\ fetches = {}
    /\ nFetch = 0
    /\ data = NullData
    /\ loading = TRUE
    /\ deliveries = <<>>
    /\ triggers = <<>>
    /\ lastTwo = <<>>

\* A call of fetchData(): the select is issued.  ev is the change event that
\* caused the call (NoEvent at mount), dup whether it was a redelivery.
NewFetch(ev, dup) ==
    [id |-> nFetch + 1, ev |-> ev.seq, dup |-> dup, stage |-> "sent",
     ok |-> FALSE, snap |-> <<>>]

\* useEffect body: fetchData(); supabase.channel(...).on(...).subscribe()
mount ==
    /\ mounted = "no"
    /\ mounted' = "yes"
    /\ fetches' = fetches \cup {NewFetch(NoEvent, FALSE)}
    /\ nFetch' = nFetch + 1
    /\ triggers' = Append(triggers, 0)
    /\ subscribed' = TRUE
    /\ UNCHANGED <<rows, feed, lastEvent, nWrites, nDups, data, loading, deliveries, lastTwo>>
    /\ UNCHANGED <<sessionVars, signupVars, loginVars, actionVars>>

\* Some client writes "your_table"; the change is fed to active subscriptions.
\* (Writes made before the component mounts are the choice of rows in InitFeed.)
Publish(op, table) ==
    IF subscribed
    THEN Append(feed, [seq |-> nWrites + 1, op |-> op, schema |-> "public", table |-> table])
    ELSE feed

tableInsert ==
    /\ mounted # "no"
    /\ nWrites < MaxWrites
    /\ rows' = Append(rows, 0)
    /\ feed' = Publish("INSERT", "your_table")
    /\ nWrites' = nWrites + 1
    /\ UNCHANGED <<mounted, subscribed, lastEvent, nDups, fetches, nFetch, data, loading,
                   deliveries, triggers, lastTwo>>
    /\ UNCHANGED <<sessionVars, signupVars, loginVars, actionVars>>

tableUpdate(i) ==
    /\ mounted # "no"
    /\ nWrites < MaxWrites
    /\ rows[i] # Deleted
    /\ rows' = [rows EXCEPT ![i] = 1 - @]
    /\ feed' = Publish("UPDATE", "your_table")
    /\ nWrites' = nWrites + 1
    /\ UNCHANGED <<mounted, subscribed, lastEvent, nDups, fetches, nFetch, data, loading,
                   deliveries, triggers, lastTwo>>
    /\ UNCHANGED <<sessionVars, signupVars, loginVars, actionVars>>

tableDelete(i) ==
    /\ mounted # "no"
    /\ nWrites < MaxWrites
    /\ rows[i] # Deleted
    /\ rows' = [rows EXCEPT ![i] = Deleted]
    /\ feed' = Publish("DELETE", "your_table")
    /\ nWrites' = nWrites + 1
    /\ UNCHANGED <<mounted, subscribed, lastEvent, nDups, fetches, nFetch, data, loading,
                   deliveries, triggers, lastTwo>>
    /\ UNCHANGED <<sessionVars, signupVars, loginVars, actionVars>>

\* A write to another table of the same schema.
otherTableWrite ==
    /\ mounted # "no"
    /\ nWrites < MaxWrites
    /\ feed' = Publish("INSERT", "other_table")
    /\ nWrites' = nWrites + 1
    /\ UNCHANGED <<mounted, subscribed, rows, lastEvent, nDups, fetches, nFetch, data,
                   loading, deliveries, triggers, lastTwo>>
    /\ UNCHANGED <<sessionVars, signupVars, loginVars, actionVars>>

\* The channel receives change event e: the callback registered with .on(...)
\* runs if the filter selects e, and calls fetchData().
Receive(e, dup) ==
    /\ deliveries' = Append(deliveries, e)
    /\ IF Matches(ChannelFilter, e)
       THEN /\ fetches' = fetches \cup {NewFetch(e, dup)}
            /\ nFetch' = nFetch + 1
            /\ triggers' = Append(triggers, Len(deliveries) + 1)
       ELSE UNCHANGED <<fetches, nFetch, triggers>>

\* The transport delivers the next change event.
deliver ==
    /\ subscribed
    /\ feed # <<>>
    /\ Receive(Head(feed), FALSE)
    /\ lastEvent' = Head(feed)
    /\ feed' = Tail(feed)
    /\ UNCHANGED <<mounted, subscribed, rows, nWrites, nDups, data, loading, lastTwo>>
    /\ UNCHANGED <<sessionVars, signupVars, loginVars, actionVars>>

\* The transport delivers the last change event once more (at-least-once).
redeliver ==
    /\ subscribed
    /\ lastEvent # NoEvent
    /\ nDups < MaxDups
    /\ Receive(lastEvent, TRUE)
    /\ nDups' = nDups + 1
    /\ UNCHANGED <<mounted, subscribed, rows, feed, lastEvent, nWrites, data, loading, lastTwo>>
    /\ UNCHANGED <<sessionVars, signupVars, loginVars, actionVars>>

\* The server answers the select of fetch f: the rows as they are now, or an error.
selectServe(f, ok) ==
    /\ f \in fetches
    /\ f.stage = "sent"
    /\ fetches' = (fetches \ {f}) \cup
           {[f EXCEPT !.stage = "replied", !.ok = ok,
                      !.snap = IF ok THEN SelectAll(rows) ELSE <<>>]}
    /\ UNCHANGED <<mounted, subscribed, rows, feed, lastEvent, nWrites, nDups, nFetch,
                   data, loading, deliveries, triggers, lastTwo>>
    /\ UNCHANGED <<sessionVars, signupVars, loginVars, actionVars>>

\* fetchData resumes after the await:
\* if (error) { console.error(...); return; }  setData(fetchedData); setLoading(false);
fetchDataResume(f) ==
    /\ f \in fetches
    /\ f.stage = "replied"
    /\ fetches' = fetches \ {f}
    /\ IF f.ok
       THEN /\ data' = setData(data, f.snap)
            /\ loading' = FALSE
       ELSE UNCHANGED <<data, loading>>
    /\ lastTwo' = (IF lastTwo = <<>> THEN <<>> ELSE <<lastTwo[Len(lastTwo)]>>) \o
           <<[ev |-> f.ev, dup |-> f.dup, ok |-> f.ok, snap |-> f.snap,
              before |-> data, after |-> data']>>
    /\ UNCHANGED <<mounted, subscribed, rows, feed, lastEvent, nWrites, nDups, nFetch,
                   deliveries, triggers>>
    /\ UNCHANGED <<sessionVars, signupVars, loginVars, actionVars>>

\* Mutant of unmount: the effect returns no cleanup, so the subscription
\* outlives the component.
unmountWithoutUnsubscribe ==
    /\ mounted = "yes"
    /\ mounted' = "unmounted"
    /\ UNCHANGED <<subscribed, rows, feed, lastEvent, nWrites, nDups, fetches, nFetch, data,
                   loading, deliveries, triggers, lastTwo>>
    /\ UNCHANGED <<sessionVars, signupVars, loginVars, actionVars>>

\* useEffect cleanup: subscription.unsubscribe()
unmount ==
    /\ mounted = "yes"
    /\ mounted' = "unmounted"
    /\ subscribed' = FALSE
    /\ UNCHANGED <<rows, feed, lastEvent, nWrites, nDups, fetches, nFetch, data, loading,
                   deliveries, triggers, lastTwo>>
    /\ UNCHANGED <<sessionVars, signupVars, loginVars, actionVars>>

NextFeed ==
    \/ mount
    \/ tableInsert
    \/ \E i \in 1..Len(rows) : tableUpdate(i)
    \/ \E i \in 1..Len(rows) : tableDelete(i)
    \/ otherTableWrite
    \/ deliver
    \/ redeliver
    \/ \E f \in fetches : \E ok \in BOOLEAN : selectServe(f, ok)
    \/ \E f \in fetches : fetchDataResume(f)
    \/ unmount

(***************************************************************************)
(* The three specifications.  Each runs one part of the program and leaves *)
(* the variables of the other parts in their initial state.                *)
(***************************************************************************)
IdleSession ==
    /\ mwPc = "start"
    /\ pathname = <<"/">>
    /\ reqCookies = EmptyJar
    /\ supabaseResponse = NoResponse
    /\ returned = NoResponse
    /\ getUserResult = NoResult
    /\ nBatches = 0
    /\ lastMut = EmptyJar

IdleSignup ==
    /\ suPc = [r \in Runs |-> "start"]
    /\ suEmail = [r \in Runs |-> "a@x.com"]
    /\ suReply = [r \in Runs |-> NoReply]
    /\ suUserId = [r \in Runs |-> 0]
    /\ suOutcome = [r \in Runs |-> NoOutcome]
    /\ suLogged = [r \in Runs |-> <<>>]
    /\ suCalls = [r \in Runs |-> <<>>]
    /\ suCreated = [r \in Runs |-> 0]
    /\ identities = {}
    /\ profiles = {}
    /\ nextId = 1

IdleFeed ==
    /\ mounted = "no"
    /\ subscribed = FALSE
    /\ rows = <<>>
    /\ feed = <<>>
    /\ lastEvent = NoEvent
    /\ nWrites = 0
    /\ nDups = 0
    /\ fetches = {}
    /\ nFetch = 0
    /\ data = NullData
    /\ loading = TRUE
    /\ deliveries = <<>>
    /\ triggers = <<>>
    /\ lastTwo = <<>>

\* login not invoked: InitLogin is its only state.
IdleLogin == InitLogin

IdleAction ==
    /\ awPc = [r \in Runs |-> "start"]
    /\ awReply = [r \in Runs |-> NoReply]
    /\ awCreatedRecordId = [r \in Runs |-> 0]
    /\ awRelatedError = [r \in Runs |-> ""]
    /\ awOutcome = [r \in Runs |-> NoOutcome]
    /\ awCalls = [r \in Runs |-> <<>>]
    /\ awCreated = [r \in Runs |-> 0]
    /\ primaryTable = {}
    /\ relatedTable = {}
    /\ awNextId = 1

SessionInit == InitSession /\ IdleSignup /\ IdleFeed /\ IdleLogin /\ IdleAction
SignupInit  == IdleSession /\ InitSignup /\ IdleFeed /\ IdleLogin /\ IdleAction
FeedInit    == IdleSession /\ IdleSignup /\ InitFeed /\ IdleLogin /\ IdleAction
AuthInit    == IdleSession /\ InitSignup /\ IdleFeed /\ InitLogin /\ IdleAction
ActionInit  == IdleSession /\ IdleSignup /\ IdleFeed /\ IdleLogin /\ InitAction

\* The authentication server actions: concurrent signup runs and a login.
NextAuth == NextSignup \/ NextLogin

SpecSession == SessionInit /\ [][NextSession]_vars
SpecSignup  == SignupInit /\ [][NextSignup]_vars
SpecFeed    == FeedInit /\ [][NextFeed]_vars
SpecAuth    == AuthInit /\ [][NextAuth]_vars
SpecAction  == ActionInit /\ [][NextAction]_vars

\* The steps of run r once signup has been invoked: the remote services
\* answer the calls made to them and the run resumes after each await.
SignupRun(r) ==
    \/ \E result \in {"user", "error", "nouser"} : authSignUp(r, result)
    \/ signupAfterSignUp(r)
    \/ \E ok \in BOOLEAN : profilesInsert(r, ok)
    \/ signupAfterInsert(r)
    \/ \E ok \in BOOLEAN : adminDeleteUser(r, ok)
    \/ signupAfterDelete(r)

\* signup under the assumption that every remote call eventually returns.
SpecSignupFair == SpecSignup /\ \A r \in Runs : WF_vars(SignupRun(r))
(***************************************************************************)
(* Properties of updateSession (checked under SpecSession).                *)
(***************************************************************************)
\* The response carries, for every cookie name passed to setAll, the last
\* value and options passed for it.
CarriesCapturedCookies(response) ==
    \A n \in DOMAIN lastMut :
        /\ n \in DOMAIN response.cookies
        /\ response.cookies[n] = lastMut[n]

\* C1: when the refresh captured cookie mutations through setAll and the guard
\* redirects to /login, the redirect response that is returned carries every
\* captured mutation.
C1_RedirectCarriesCookies ==
    (mwPc = "done" /\ returned.kind = "redirect" /\ DOMAIN lastMut # {})
        => CarriesCapturedCookies(returned)

\* The path has a protected prefix, stated character by character.
HasProtectedPrefix ==
    \E i \in 1..Len(protectedRoutes) :
        LET p == protectedRoutes[i] IN
            /\ Len(p) <= Len(pathname)
            /\ \A k \in 1..Len(p) : pathname[k] = p[k]

\* C6: updateSession redirects to /login exactly when the path starts with a
\* protected prefix and the refreshed user is absent; in every other case the
\* request is allowed.
C6_RouteDecision ==
    mwPc = "done" =>
        LET guarded == HasProtectedPrefix /\ getUserResult.user = NoUser IN
            /\ (returned.kind = "redirect" /\ returned.location = LoginPath) <=> guarded
            /\ ~guarded => returned.kind = "next"

\* Witness of C6: a request below /dashboard with no user was redirected.
C6_Witness ==
    /\ mwPc = "done"
    /\ pathname = DashboardPath \o <<"/", "x">>
    /\ getUserResult.user = NoUser
    /\ returned.kind = "redirect"

\* C7: for an allowed request, the returned response carries for every cookie
\* name mutated in any setAll batch the last mutation produced for that name.
C7_AllowedCarriesLastMutations ==
    (mwPc = "done" /\ returned.kind = "next") => CarriesCapturedCookies(returned)

\* C8: when the provider rejects the token or is unreachable, updateSession
\* does not end in an error: it produces the response of an absent user, allow
\* for a non-protected path and redirect to /login for a protected one.
C8_ProviderFailureIsAbsentUser ==
    (mwPc = "done" /\ getUserResult.error \in {"rejected", "unreachable"}) =>
        /\ returned.kind \in {"next", "redirect"}
        /\ HasProtectedPrefix => (returned.kind = "redirect" /\ returned.location = LoginPath)
        /\ ~HasProtectedPrefix => returned = supabaseResponse

\* Witness of C8: the provider was unreachable for a request to a protected
\* path, and the request was redirected.
C8_Witness ==
    /\ mwPc = "done"
    /\ getUserResult.error = "unreachable"
    /\ pathname = DashboardPath
    /\ returned.kind = "redirect"

(***************************************************************************)
(* Properties of signup (checked under SpecSignup).                        *)
(***************************************************************************)
Count(seq, x) == Cardinality({i \in 1..Len(seq) : seq[i] = x})
Has(seq, x)   == \E i \in 1..Len(seq) : seq[i] = x

\* The run ended after a compensating delete that failed.
CompensationFailed(r) == suPc[r] = "done" /\ Has(suCalls[r], "deleteUser:error")
\* The run ended after a compensating delete that succeeded.
Compensated(r) == suPc[r] = "done" /\ Has(suCalls[r], "deleteUser:ok")

\* C2: after a signup attempt that does not end in a failed compensation,
\* either exactly one Identity and exactly one Profile with the attempt's id
\* exist, or no Identity and no Profile of the attempt exists.
C2_SagaAtomicity ==
    \A r \in Runs :
        (suPc[r] = "done" /\ ~CompensationFailed(r)) =>
            LET ids == {i \in identities : i.id = suCreated[r]}
                ps  == {q \in profiles : q.id = suCreated[r]}
            IN  \/ suCreated[r] # 0 /\ Cardinality(ids) = 1 /\ Cardinality(ps) = 1
                \/ ids = {} /\ ps = {}

\* Witness of C2: Profile creation failed, the compensating delete succeeded,
\* and the Identity the attempt had created is gone.
C2_Witness ==
    \E r \in Runs :
        /\ Compensated(r)
        /\ suCreated[r] # 0
        /\ ~ \E i \in identities : i.id = suCreated[r]

\* C3: a failed compensation ends signup with an outcome different from the
\* outcome of a successful compensation, and emits a reconciliation signal.
C3_CompensationFailureDistinct ==
    /\ \A r1, r2 \in Runs :
           (CompensationFailed(r1) /\ Compensated(r2)) => suOutcome[r1] # suOutcome[r2]
    /\ \A r \in Runs :
           CompensationFailed(r) =>
               \E k \in 1..Len(suLogged[r]) : suLogged[r][k].detail = "delete_error"

\* C4: the compensating deleteUser call is issued at most once, only after the
\* insert has returned its failure, and a finished run has issued it once if
\* the insert failed and not at all otherwise.
C4_CompensationOnceAfterFailure ==
    \A r \in Runs :
        LET c == suCalls[r] IN
            /\ Count(c, "deleteUser") <= 1
            /\ \A i \in 1..Len(c) :
                   c[i] = "deleteUser" => \E j \in 1..(i - 1) : c[j] = "insert:error"
            /\ suPc[r] = "done" =>
                   Count(c, "deleteUser") = (IF Has(c, "insert:error") THEN 1 ELSE 0)

\* Witness of C4: a finished run whose insert failed and which called deleteUser.
C4_Witness ==
    \E r \in Runs :
        /\ suPc[r] = "done"
        /\ Has(suCalls[r], "insert:error")
        /\ Count(suCalls[r], "deleteUser") = 1

\* C5: when signUp fails, signup ends with the identity-creation failure
\* outcome, has issued no insert and no deleteUser, and neither store holds
\* anything that is not another run's.
C5_IdentityFailureStopsSaga ==
    \A r \in Runs :
        (suPc[r] = "done" /\ Has(suCalls[r], "signUp:error")) =>
            /\ suOutcome[r] = Redirect("/login", "Could not create account.")
            /\ suCalls[r] = <<"signUp", "signUp:error">>
            /\ \A i \in identities : \E o \in Runs \ {r} : suCreated[o] = i.id
            /\ \A q \in profiles : q.id # 0 /\ \E o \in Runs \ {r} : suCreated[o] = q.id

\* Witness of C5: a run whose signUp failed has ended while another run has
\* created an Identity and a Profile.
C5_Witness ==
    \E r \in Runs :
        /\ suPc[r] = "done"
        /\ Has(suCalls[r], "signUp:error")
        /\ identities # {}
        /\ profiles # {}

(***************************************************************************)
(* Properties of ClientDataComponent (checked under SpecFeed).             *)
(***************************************************************************)
\* C9: every change event the channel receives on the subscribed table,
\* whatever its operation, causes exactly one call of fetchData.
C9_OneRefetchPerEvent ==
    \A k \in 1..Len(deliveries) :
        (deliveries[k].schema = "public" /\ deliveries[k].table = "your_table") =>
            Cardinality({i \in 1..Len(triggers) : triggers[i] = k}) = 1

\* Witness of C9: a delete event was received twice, and fetchData ran for the
\* mount and for both receipts.
C9_Witness ==
    /\ Len(deliveries) = 2
    /\ deliveries[1].op = "DELETE"
    /\ deliveries[2].op = "DELETE"
    /\ Len(triggers) = 3

\* The last two completions of fetchData are the refetches of the two
\* deliveries of one change event.
DuplicatePair ==
    /\ Len(lastTwo) = 2
    /\ lastTwo[1].ev # 0
    /\ lastTwo[1].ev = lastTwo[2].ev
    /\ lastTwo[1].dup # lastTwo[2].dup

\* Of such a pair, the refetch of the first delivery and that of the duplicate.
FirstDelivery == IF lastTwo[1].dup THEN lastTwo[2] ELSE lastTwo[1]
Duplicate     == IF lastTwo[1].dup THEN lastTwo[1] ELSE lastTwo[2]

\* The data the component holds had the event been delivered once: the
\* refetch of the first delivery alone, applied to the data held before.
DataDeliveredOnce ==
    IF FirstDelivery.ok
    THEN [isNull |-> FALSE, rows |-> FirstDelivery.snap]
    ELSE lastTwo[1].before

C11_NoProfileWithoutIdentity ==
    \A q \in profiles : \E i \in identities : i.id = q.id

\* Witness of C11: a Profile exists while another run's Identity has been
\* removed by its compensating delete.
C11_Witness ==
    /\ profiles # {}
    /\ \E r \in Runs :
           /\ suCreated[r] # 0
           /\ suPc[r] = "deleteReplied"
           /\ ~ \E i \in identities : i.id = suCreated[r]

\* The run has reported success: it went on to redirect("/dashboard").
ReportedSuccess(r) == suOutcome[r].path = "/dashboard"

\* C12: a run reports success only if its signUp created an Identity and its
\* insert created the Profile; when success is reported an Identity and a
\* Profile with the run's id exist and no call of the run has failed.
C12_SuccessOnlyIfBothCreated ==
    \A r \in Runs :
        ReportedSuccess(r) =>
            /\ suCreated[r] # 0
            /\ \E i \in identities : i.id = suCreated[r]
            /\ \E q \in profiles : q.id = suCreated[r]
            /\ ~ Has(suCalls[r], "signUp:error")
            /\ ~ Has(suCalls[r], "signUp:nouser")
            /\ ~ Has(suCalls[r], "insert:error")

\* Witness of C12: one run has reported success and another has ended in failure.
C12_Witness ==
    \E r, o \in Runs :
        /\ ReportedSuccess(r)
        /\ suPc[o] = "done"
        /\ suOutcome[o].path = "/login"

\* C13: the insert of a run is issued only after its signUp has returned a
\* user id, with exactly that id, and every Profile has the id the provider
\* returned to the run that inserted it.
C13_ProfileAfterIdentity ==
    /\ \A r \in Runs :
           LET c == suCalls[r] IN
               /\ \A i \in 1..Len(c) :
                      c[i] = "insert" => (i > 1 /\ c[i - 1] = "signUp:ok")
               /\ Has(c, "insert") => (suUserId[r] # 0 /\ suUserId[r] = suCreated[r])
    /\ \A q \in profiles :
           \E r \in Runs :
               /\ Has(suCalls[r], "insert")
               /\ q = [id |-> suCreated[r], email |-> suEmail[r], role |-> "coach"]

\* Witness of C13: two runs have each created a Profile under their own id.
C13_Witness ==
    /\ Cardinality(profiles) = 2
    /\ \A r \in Runs : \E q \in profiles : q.id = suCreated[r]

\* C19: with runs interleaved, the compensating delete of a run targets the
\* id its own signUp returned: an Identity is missing only if the run that
\* created it has called deleteUser for it, and the Profile a run has
\* created stays.
C19_CompensationTargetsOwnIdentity ==
    \A r \in Runs :
        /\ suPc[r] \in {"awaitDelete", "deleteReplied"} =>
               (suUserId[r] # 0 /\ suUserId[r] = suCreated[r])
        /\ (suCreated[r] # 0 /\ ~ \E i \in identities : i.id = suCreated[r]) =>
               (Has(suCalls[r], "deleteUser") /\ suPc[r] \in {"deleteReplied", "done"})
        /\ Has(suCalls[r], "insert:ok") => \E q \in profiles : q.id = suCreated[r]

\* Witness of C19: a run has deleted its own Identity while the Identity and
\* the Profile of another run with the same email stay.
C19_Witness ==
    \E r, o \in Runs :
        /\ r # o
        /\ suEmail[r] = suEmail[o]
        /\ Compensated(r)
        /\ ~ \E i \in identities : i.id = suCreated[r]
        /\ Has(suCalls[o], "insert:ok")
        /\ \E i \in identities : i.id = suCreated[o]

\* C20: when signUp returns neither an error nor a user id, signup ends with
\* the 'Account creation failed.' redirect and has issued no insert and no
\* deleteUser.
C20_NoUserIdStopsSaga ==
    \A r \in Runs :
        (suPc[r] # "start" /\ Has(suCalls[r], "signUp:nouser")) =>
            /\ suPc[r] = "done"
            /\ suOutcome[r] = Redirect("/login", "Account creation failed.")
            /\ suCalls[r] = <<"signUp", "signUp:nouser">>
            /\ suUserId[r] = 0

\* Witness of C20: a run has ended on a signUp that returned no user, and the
\* stores are empty.
C20_Witness ==
    \E r \in Runs :
        /\ suPc[r] = "done"
        /\ Has(suCalls[r], "signUp:nouser")
        /\ suLogged[r] = <<>>
        /\ identities = {}
        /\ profiles = {}

(***************************************************************************)
(* Further properties of updateSession (checked under SpecSession).        *)
(***************************************************************************)
\* C14: updateSession produces no response before getUser has completed, and
\* the response it then produces is the route decision for the user that
\* getUser returned.
C14_DecisionAfterRefresh ==
    /\ mwPc # "done" => (returned = NoResponse /\ getUserResult = NoResult)
    /\ mwPc = "done" =>
           /\ getUserResult \in GetUserResults
           /\ returned.kind \in {"next", "redirect"}
           /\ returned.kind = "next" =>
                  (getUserResult.user # NoUser \/ ~HasProtectedPrefix)
           /\ returned.kind = "redirect" => getUserResult.user = NoUser

\* Witness of C14: the refresh made two setAll calls and returned a user for a
\* protected path, and the request was then allowed.
C14_Witness ==
    /\ mwPc = "done"
    /\ nBatches = 2
    /\ pathname = DashboardPath
    /\ getUserResult.user # NoUser
    /\ returned.kind = "next"

(***************************************************************************)
(* Further properties of ClientDataComponent (checked under SpecFeed).     *)
(***************************************************************************)
\* C15: the subscription is active exactly while the component is mounted: it
\* is cancelled when the owning scope ends, by that one unsubscribe call and
\* by nothing else, and once it is cancelled no change event is received and
\* no fetchData is triggered any more.
C15_CancelledOnUnmountOnly ==
    /\ [](subscribed <=> mounted = "yes")
    /\ [][/\ (subscribed /\ ~subscribed') => (mounted = "yes" /\ mounted' = "unmounted")
          /\ (mounted = "yes" /\ mounted' = "unmounted") => (subscribed /\ ~subscribed')
          /\ mounted = "unmounted" =>
                 (/\ mounted' = "unmounted"
                  /\ deliveries' = deliveries
                  /\ triggers' = triggers
                  /\ nFetch' = nFetch)]_vars

\* Witness of C15: the component has unmounted while a change event was still
\* on its way, and fetches it had started are still in flight.
C15_Witness ==
    /\ mounted = "unmounted"
    /\ feed # <<>>
    /\ fetches # {}

(***************************************************************************)
(* Termination of signup (checked under SpecSignupFair).                   *)
(***************************************************************************)
\* The ways a run can have ended, by what happened in it.
EndedInSuccess(r)         == Has(suCalls[r], "insert:ok") /\ ReportedSuccess(r)
EndedInIdentityFailure(r) ==
    /\ Has(suCalls[r], "signUp:error") \/ Has(suCalls[r], "signUp:nouser")
    /\ suOutcome[r].path = "/login"
EndedCompensated(r)       == Has(suCalls[r], "deleteUser:ok") /\ suOutcome[r].path = "/login"
EndedUncompensated(r)     == Has(suCalls[r], "deleteUser:error") /\ suOutcome[r].path = "/login"

EndedInOneOutcome(r) ==
    /\ suPc[r] = "done"
    /\ Cardinality({k \in 1..4 : \/ k = 1 /\ EndedInSuccess(r)
                                 \/ k = 2 /\ EndedInIdentityFailure(r)
                                 \/ k = 3 /\ EndedCompensated(r)
                                 \/ k = 4 /\ EndedUncompensated(r)}) = 1
    /\ suCreated[r] # 0 =>
           \/ \E q \in profiles : q.id = suCreated[r]
           \/ Has(suCalls[r], "deleteUser")

\* C17: if every remote call eventually returns, every invoked signup run
\* eventually ends in exactly one outcome, which then stays; a run whose
\* Identity was created ends only after it has created the Profile or has
\* called the compensating delete.
C17_SignupTerminates ==
    /\ \A r \in Runs : (suPc[r] # "start") ~> EndedInOneOutcome(r)
    /\ [][\A r \in Runs :
              suPc[r] = "done" => (suPc'[r] = "done" /\ suOutcome'[r] = suOutcome[r])]_vars

\* Witness of C17: both runs have ended, one in success and one after a
\* compensating delete that failed.
C17_Witness ==
    \E r, o \in Runs :
        /\ EndedInOneOutcome(r) /\ EndedInSuccess(r)
        /\ EndedInOneOutcome(o) /\ EndedUncompensated(o)

(***************************************************************************)
(* Properties of signup and login together (checked under SpecAuth).       *)
(***************************************************************************)
\* The messages signup and login place in a redirect to /login.
FixedMessages ==
    {"Could not create account.", "Account creation failed.",
     "Account setup failed.", "Could not authenticate user"}

\* The error details the identity provider and the profile store answer with.
ErrorDetails == {"auth_error", "db_error", "delete_error"} \cup SignInErrors

SignupFailed(r) ==
    /\ suPc[r] = "done"
    /\ \/ Has(suCalls[r], "signUp:error")
       \/ Has(suCalls[r], "signUp:nouser")
       \/ Has(suCalls[r], "insert:error")

LoginFailed == liPc = "done" /\ liReply.error # "none"

ShortMessageToLogin(outcome) ==
    /\ outcome.path = "/login"
    /\ outcome.message \in FixedMessages
    /\ outcome.message \notin ErrorDetails

LoggedDetail(r, detail) ==
    \E k \in 1..Len(suLogged[r]) : suLogged[r][k].detail = detail

RelatedFailed(r) == awPc[r] = "done" /\ Has(awCalls[r], "insertRelated:error")
PrimaryFailed(r) == awPc[r] = "done" /\ Has(awCalls[r], "insertPrimary:error")
CleanupAwaited(r) ==
    Has(awCalls[r], "deletePrimary:ok") \/ Has(awCalls[r], "deletePrimary:error")

====
